---------------------------- MODULE Spec2Model ----------------------------
(***************************************************************************)
(* A model of sales_analysis.py: a Streamlit script that loads a joined    *)
(* sales table once (st.cache_data), builds four multiselect filters and a *)
(* date-range picker, filters the table, and computes KPIs, the ranked and *)
(* categorical group-by pipelines and the Pareto analysis.                 *)
(*                                                                         *)
(* Abstractions.  Dimension values (store city, product, category,         *)
(* salesperson) are positive integers standing for names in their sorted   *)
(* order; NULL stands for a left-join miss.  Amounts are integers, so      *)
(* sums are exact; a quotient (mean, percentage) is kept as the pair       *)
(* [num, den] and compared by cross-multiplication; NaN is 0/0.  DATA is a *)
(* timestamp in hours, a picked date is a day number.  A script run is     *)
(* split in steps at the places where an exception can end it.             *)
(*                                                                         *)
(* The statements under "with tab2:", "with tab3:" and "with tab4:" are    *)
(* read as the bodies of those blocks, in file order (as written they are  *)
(* not indented under them).  The month, quarter and month-by-city         *)
(* group-bys feed charts only and are left out.                            *)
(***************************************************************************)
EXTENDS Integers, Sequences, FiniteSets

VARIABLES
    cache,              \* st.cache_data entry of load_sales_data (<<>>: none)
    queries,            \* number of executions of the warehouse query
    rendered,           \* the sidebar widgets exist in the session state
    store_filter, product_filter, category_filter, salesperson_filter,
    date_range,         \* tuple of 0, 1 or 2 picked days
    pc,                 \* position of the current script run
    fault,              \* exception that ended the run, or "none"
    df_sales, df_filtered,
    kpi,                \* total_revenue, total_transactions, avg_ticket, total_quantity
    product_sales, category_sales, top_salespersons, top_stores,
    pareto_products, products_80, insight_share

widgets == <<store_filter, product_filter, category_filter, salesperson_filter, date_range>>
outputs == <<df_filtered, kpi, product_sales, category_sales, top_salespersons,
             top_stores, pareto_products, products_80, insight_share>>
vars == <<cache, queries, rendered, widgets, pc, fault, df_sales, outputs>>

-----------------------------------------------------------------------------
(* Bounds of the model *)
MaxRows == 3        \* rows of a base dataset of a session
MaxWide == 11       \* groups of a wide pipeline input (more than the top 10)
MaxSeqRows == 3     \* rows of a pipeline input with repeated products

(* Program constants *)
TopN == 10
Threshold80 == 80
NULL == 0

-----------------------------------------------------------------------------
(* Data *)
ToDatetime(day) == day * 24
ToDate(ts) == ts \div 24

Row(id, day, city, product, category, salesperson, amount) ==
    [ID_TRANSACAO |-> id, DATA |-> ToDatetime(day), STORE_CITY |-> city,
     PRODUCT_NAME |-> product, CATEGORY |-> category,
     SALESPERSON_NAME |-> salesperson, TOTAL_VENDA |-> amount,
     QUANTIDADE_VENDIDA |-> 1]

Dimensions == <<"STORE_CITY", "PRODUCT_NAME", "CATEGORY", "SALESPERSON_NAME">>

NaN == [num |-> 0, den |-> 0]
IsNaN(q) == q.den = 0

RECURSIVE SumCol(_, _)
SumCol(df, col) ==
    IF df = <<>> THEN 0 ELSE Head(df)[col] + SumCol(Tail(df), col)

Mean(df, col) ==
    IF df = <<>> THEN NaN ELSE [num |-> SumCol(df, col), den |-> Len(df)]

Unique(df, col) == {df[i][col] : i \in DOMAIN df}

MinDate(df) == CHOOSE d \in Unique(df, "DATA") : \A e \in Unique(df, "DATA") : d <= e
MaxDate(df) == CHOOSE d \in Unique(df, "DATA") : \A e \in Unique(df, "DATA") : d >= e

\* sorted(values) compares the values pairwise: None against a str raises TypeError
SortedRaises(values) == NULL \in values /\ Cardinality(values) > 1

-----------------------------------------------------------------------------
(* Filter Engine *)
Isin(df, col, values) == SelectSeq(df, LAMBDA r : r[col] \in values)

FilterStep(df, col, selection) ==
    IF selection # {} THEN Isin(df, col, selection) ELSE df

DateStepExclusive(df, dr) ==
    IF Len(dr) = 2
    THEN SelectSeq(df, LAMBDA r : r.DATA >= ToDatetime(dr[1]) /\ r.DATA < ToDatetime(dr[2]))
    ELSE df

DateStepPartial(df, dr) ==
    IF Len(dr) >= 1
    THEN SelectSeq(df, LAMBDA r : r.DATA >= ToDatetime(dr[1])
                                  /\ r.DATA <= ToDatetime(dr[Len(dr)]))
    ELSE df

DateStep(df, dr) ==
    IF Len(dr) = 2
    THEN SelectSeq(df, LAMBDA r : r.DATA >= ToDatetime(dr[1]) /\ r.DATA <= ToDatetime(dr[2]))
    ELSE df

FilterEngine(df, sf, pf, cf, spf, dr) ==
    LET d1 == FilterStep(df, "STORE_CITY", sf)
        d2 == FilterStep(d1, "PRODUCT_NAME", pf)
        d3 == FilterStep(d2, "CATEGORY", cf)
        d4 == FilterStep(d3, "SALESPERSON_NAME", spf)
    IN  DateStep(d4, dr)

-----------------------------------------------------------------------------
(* Aggregation pipelines *)
RECURSIVE SortedKeys(_)
SortedKeys(S) ==
    IF S = {} THEN <<>>
    ELSE LET m == CHOOSE x \in S : \A y \in S : x <= y
         IN  <<m>> \o SortedKeys(S \ {m})

\* groupby(col)['TOTAL_VENDA'].sum(): keys ascending, a null key is dropped (dropna=True)
GroupBySum(df, col) ==
    LET keys == SortedKeys(Unique(df, col) \ {NULL})
    IN  [i \in 1..Len(keys) |->
            [key |-> keys[i],
             TOTAL_VENDA |-> SumCol(Isin(df, col, {keys[i]}), "TOTAL_VENDA")]]

RemoveAt(s, i) == SubSeq(s, 1, i - 1) \o SubSeq(s, i + 1, Len(s))

\* sort_values('TOTAL_VENDA', ascending=False); ties keep the group-key order
RECURSIVE SortValuesDesc(_)
SortValuesDesc(rows) ==
    IF rows = <<>> THEN <<>>
    ELSE LET i == CHOOSE i \in DOMAIN rows : \A j \in DOMAIN rows :
                      \/ rows[j].TOTAL_VENDA < rows[i].TOTAL_VENDA
                      \/ rows[j].TOTAL_VENDA = rows[i].TOTAL_VENDA /\ i <= j
         IN  <<rows[i]>> \o SortValuesDesc(RemoveAt(rows, i))

HeadNOffByOne(rows, n) == SubSeq(rows, 1, IF Len(rows) < n + 1 THEN Len(rows) ELSE n + 1)

HeadN(rows, n) == SubSeq(rows, 1, IF Len(rows) < n THEN Len(rows) ELSE n)

RankedPipeline(df, col) == HeadN(SortValuesDesc(GroupBySum(df, col)), TopN)

-----------------------------------------------------------------------------
(* Pareto Analyzer *)
CumSumExclusive(rows) ==
    [i \in 1..Len(rows) |-> SumCol(SubSeq(rows, 1, i - 1), "TOTAL_VENDA")]

CumSum(rows) ==
    [i \in 1..Len(rows) |-> SumCol(SubSeq(rows, 1, i), "TOTAL_VENDA")]

\* cumsum, CUMULATIVE_SALES / TOTAL_VENDA.sum() * 100, PRODUCT_NUMBER = 1..N
ParetoFrame(groups) ==
    LET sorted == SortValuesDesc(groups)
        cum    == CumSum(sorted)
        total  == SumCol(sorted, "TOTAL_VENDA")
    IN  [i \in 1..Len(sorted) |->
            [PRODUCT_NAME |-> sorted[i].key,
             TOTAL_VENDA |-> sorted[i].TOTAL_VENDA,
             CUMULATIVE_SALES |-> cum[i],
             CUMULATIVE_PERCENTAGE |-> [num |-> cum[i] * 100, den |-> total],
             PRODUCT_NUMBER |-> i]]

\* q <= 80 on floats; a comparison with NaN is False
LE80(q) == q.den > 0 /\ q.num <= Threshold80 * q.den

Products80(pareto) == SelectSeq(pareto, LAMBDA row : LE80(row.CUMULATIVE_PERCENTAGE))

-----------------------------------------------------------------------------
(* Inputs: what the warehouse query can return *)
SampleRows ==
    << Row(1, 1, 1, 1, 1, 1, 100),
       Row(2, 2, 2, 2, 1, 2, 300),
       Row(3, 3, 1, 2, 1, 1, 100),
       Row(4, 2, 2, 1, 1, 1, 300),
       Row(5, 1, NULL, 1, 1, 2, 100),       \* no dim_loja match
       Row(6, 3, 1, NULL, NULL, 1, 300) >>  \* no dim_produto match

\* the base datasets of a session: up to MaxRows of the sample rows, in table order
Datasets ==
    { [i \in 1..Cardinality(S) |-> SampleRows[SortedKeys(S)[i]]] :
        S \in {T \in SUBSET DOMAIN SampleRows : T # {} /\ Cardinality(T) <= MaxRows} }

\* one row per group, up to MaxWide groups in every ranked dimension
WideInputs ==
    UNION { { [i \in 1..n |-> Row(i, 1, i, i, i, i, a[i])] : a \in [1..n -> {100, 300}] } :
            n \in 1..MaxWide }

\* up to MaxSeqRows rows over three products, a product may repeat
SeqInputs ==
    UNION { { [i \in 1..n |-> Row(i, 1, 1, c[i][1], 1, 1, c[i][2])] :
                c \in [1..n -> (1..3) \X {100, 300, 600}] } :
            n \in 1..MaxSeqRows }

\* every row missed dim_produto: product name and category are null
MissInputs ==
    UNION { { [i \in 1..n |-> Row(i, 1, 1, NULL, NULL, 1, a[i])] : a \in [1..n -> {100, 300}] } :
            n \in 1..MaxSeqRows }

PipelineInputs == WideInputs \cup SeqInputs \cup MissInputs

DefaultDateRange(df) == <<ToDate(MinDate(df)), ToDate(MaxDate(df))>>

NoKPI == [total_revenue |-> 0, total_transactions |-> 0, avg_ticket |-> NaN,
          total_quantity |-> 0]

\* a script run starts with an empty namespace
FreshOutputs ==
    /\ df_filtered = <<>>
    /\ kpi = NoKPI
    /\ product_sales = <<>>
    /\ category_sales = <<>>
    /\ top_salespersons = <<>>
    /\ top_stores = <<>>
    /\ pareto_products = <<>>
    /\ products_80 = <<>>
    /\ insight_share = NaN

-----------------------------------------------------------------------------
(* The session *)
Init ==
    /\ cache = <<>>
    /\ queries = 0
    /\ rendered = FALSE
    /\ store_filter = {}
    /\ product_filter = {}
    /\ category_filter = {}
    /\ salesperson_filter = {}
    /\ date_range = <<>>
    /\ pc = "load"
    /\ fault = "none"
    /\ df_sales = <<>>
    /\ FreshOutputs

\* @st.cache_data load_sales_data(): the query runs on a cache miss only
LoadSalesData ==
    /\ pc = "load"
    /\ IF cache = <<>>
       THEN \E ds \in Datasets :
              /\ cache' = ds
              /\ queries' = queries + 1
              /\ df_sales' = ds
       ELSE /\ df_sales' = cache
            /\ UNCHANGED <<cache, queries>>
    /\ pc' = "sidebar"
    /\ UNCHANGED <<rendered, widgets, fault, outputs>>

\* the four multiselects (options=sorted(unique())) and the date_input
Sidebar ==
    /\ pc = "sidebar"
    /\ IF \E i \in DOMAIN Dimensions : SortedRaises(Unique(df_sales, Dimensions[i]))
       THEN /\ pc' = "error"
            /\ fault' = "TypeError"
            /\ UNCHANGED <<rendered, date_range>>
       ELSE /\ pc' = "filter"
            /\ rendered' = TRUE
            /\ date_range' = IF rendered THEN date_range ELSE DefaultDateRange(df_sales)
            /\ UNCHANGED fault
    /\ UNCHANGED <<cache, queries, store_filter, product_filter, category_filter,
                   salesperson_filter, df_sales, outputs>>

ApplyFilters ==
    /\ pc = "filter"
    /\ df_filtered' = FilterEngine(df_sales, store_filter, product_filter,
                                   category_filter, salesperson_filter, date_range)
    /\ pc' = "kpi"
    /\ UNCHANGED <<cache, queries, rendered, widgets, fault, df_sales, kpi,
                   product_sales, category_sales, top_salespersons, top_stores,
                   pareto_products, products_80, insight_share>>

KPISummary ==
    /\ pc = "kpi"
    /\ kpi' = [total_revenue |-> SumCol(df_filtered, "TOTAL_VENDA"),
               total_transactions |-> Len(df_filtered),
               avg_ticket |-> Mean(df_filtered, "TOTAL_VENDA"),
               total_quantity |-> SumCol(df_filtered, "QUANTIDADE_VENDIDA")]
    /\ pc' = "agg"
    /\ UNCHANGED <<cache, queries, rendered, widgets, fault, df_sales, df_filtered,
                   product_sales, category_sales, top_salespersons, top_stores,
                   pareto_products, products_80, insight_share>>

Aggregations ==
    /\ pc = "agg"
    /\ product_sales' = RankedPipeline(df_filtered, "PRODUCT_NAME")
    /\ category_sales' = GroupBySum(df_filtered, "CATEGORY")
    /\ top_salespersons' = RankedPipeline(df_filtered, "SALESPERSON_NAME")
    /\ top_stores' = RankedPipeline(df_filtered, "STORE_CITY")
    /\ pc' = "pareto"
    /\ UNCHANGED <<cache, queries, rendered, widgets, fault, df_sales, df_filtered,
                   kpi, pareto_products, products_80, insight_share>>

ParetoAnalysis ==
    /\ pc = "pareto"
    /\ pareto_products' = ParetoFrame(GroupBySum(df_filtered, "PRODUCT_NAME"))
    /\ pc' = "insight"
    /\ UNCHANGED <<cache, queries, rendered, widgets, fault, df_sales, df_filtered,
                   kpi, product_sales, category_sales, top_salespersons, top_stores,
                   products_80, insight_share>>

\* len(products_80)/len(pareto_products)*100: int / int raises on a zero divisor
Insight ==
    /\ pc = "insight"
    /\ products_80' = Products80(pareto_products)
    /\ IF Len(pareto_products) = 0
       THEN /\ pc' = "error"
            /\ fault' = "ZeroDivisionError"
            /\ UNCHANGED insight_share
       ELSE /\ pc' = "done"
            /\ insight_share' = [num |-> Len(products_80') * 100,
                                 den |-> Len(pareto_products)]
            /\ UNCHANGED fault
    /\ UNCHANGED <<cache, queries, rendered, widgets, df_sales, df_filtered, kpi,
                   product_sales, category_sales, top_salespersons, top_stores,
                   pareto_products>>

DateTuples(df) ==
    LET days == ToDate(MinDate(df))..ToDate(MaxDate(df))
    IN  {<<>>} \cup {<<d>> : d \in days} \cup {<<d, e>> : d \in days, e \in days}

Rerun ==
    /\ pc' = "load"
    /\ fault' = "none"
    /\ df_sales' = <<>>
    /\ df_filtered' = <<>>
    /\ kpi' = NoKPI
    /\ product_sales' = <<>>
    /\ category_sales' = <<>>
    /\ top_salespersons' = <<>>
    /\ top_stores' = <<>>
    /\ pareto_products' = <<>>
    /\ products_80' = <<>>
    /\ insight_share' = NaN
    /\ UNCHANGED <<cache, queries, rendered>>

InteractNoRerun ==
    /\ rendered
    /\ \/ \E v \in SUBSET Unique(cache, "STORE_CITY") :
            /\ v # store_filter
            /\ store_filter' = v
            /\ UNCHANGED <<product_filter, category_filter, salesperson_filter, date_range>>
       \/ \E v \in DateTuples(cache) :
            /\ v # date_range
            /\ date_range' = v
            /\ UNCHANGED <<store_filter, product_filter, category_filter,
                           salesperson_filter>>
    /\ UNCHANGED <<cache, queries, rendered, pc, fault, df_sales, outputs>>

\* the user changes one widget: the new value is stored and the script runs again
Interact ==
    /\ rendered
    /\ \/ \E v \in SUBSET Unique(cache, "STORE_CITY") :
            /\ v # store_filter
            /\ store_filter' = v
            /\ UNCHANGED <<product_filter, category_filter, salesperson_filter, date_range>>
       \/ \E v \in SUBSET Unique(cache, "PRODUCT_NAME") :
            /\ v # product_filter
            /\ product_filter' = v
            /\ UNCHANGED <<store_filter, category_filter, salesperson_filter, date_range>>
       \/ \E v \in SUBSET Unique(cache, "CATEGORY") :
            /\ v # category_filter
            /\ category_filter' = v
            /\ UNCHANGED <<store_filter, product_filter, salesperson_filter, date_range>>
       \/ \E v \in SUBSET Unique(cache, "SALESPERSON_NAME") :
            /\ v # salesperson_filter
            /\ salesperson_filter' = v
            /\ UNCHANGED <<store_filter, product_filter, category_filter, date_range>>
       \/ \E v \in DateTuples(cache) :
            /\ v # date_range
            /\ date_range' = v
            /\ UNCHANGED <<store_filter, product_filter, category_filter,
                           salesperson_filter>>
    /\ Rerun

Next ==
    \/ LoadSalesData
    \/ Sidebar
    \/ ApplyFilters
    \/ KPISummary
    \/ Aggregations
    \/ ParetoAnalysis
    \/ Insight
    \/ Interact

Spec == Init /\ [][Next]_vars

-----------------------------------------------------------------------------
(* The pipelines on their own: a run that has loaded and filtered a dataset *)
(* with the default selection, from the KPI step on                         *)
InitAgg ==
    \E ds \in PipelineInputs :
        /\ cache = ds
        /\ queries = 1
        /\ rendered = TRUE
        /\ store_filter = {}
        /\ product_filter = {}
        /\ category_filter = {}
        /\ salesperson_filter = {}
        /\ date_range = DefaultDateRange(ds)
        /\ pc = "kpi"
        /\ fault = "none"
        /\ df_sales = ds
        /\ df_filtered = FilterEngine(ds, {}, {}, {}, {}, DefaultDateRange(ds))
        /\ kpi = NoKPI
        /\ product_sales = <<>>
        /\ category_sales = <<>>
        /\ top_salespersons = <<>>
        /\ top_stores = <<>>
        /\ pareto_products = <<>>
        /\ products_80 = <<>>
        /\ insight_share = NaN

NextAgg ==
    \/ KPISummary
    \/ Aggregations
    \/ ParetoAnalysis
    \/ Insight

SpecAgg == InitAgg /\ [][NextAgg]_vars

-----------------------------------------------------------------------------
(* Positions of a run *)
DivFault == pc = "error" /\ fault = "ZeroDivisionError"
Filtered == pc \in {"kpi", "agg", "pareto", "insight", "done"} \/ DivFault
AfterKPI == pc \in {"agg", "pareto", "insight", "done"} \/ DivFault
AfterAgg == pc \in {"pareto", "insight", "done"} \/ DivFault
AfterPareto == pc \in {"insight", "done"} \/ DivFault
AfterInsight == pc = "done" \/ DivFault

DimKeeps(r) ==
    /\ store_filter # {} => r.STORE_CITY \in store_filter
    /\ product_filter # {} => r.PRODUCT_NAME \in product_filter
    /\ category_filter # {} => r.CATEGORY \in category_filter
    /\ salesperson_filter # {} => r.SALESPERSON_NAME \in salesperson_filter

DateKeeps(r) ==
    /\ ToDatetime(date_range[1]) <= r.DATA
    /\ r.DATA <= ToDatetime(date_range[2])

-----------------------------------------------------------------------------
\* C1: with a two-endpoint date range, the filtered view is exactly the rows of
\* the base dataset whose value is in every non-empty selection and whose date
\* lies in [start, end], both ends included; an inverted range gives the empty
\* view and the filter step raises nothing.
C1_FilterExact ==
    (Filtered /\ Len(date_range) = 2) =>
        /\ df_filtered = SelectSeq(df_sales, LAMBDA r : DimKeeps(r) /\ DateKeeps(r))
        /\ date_range[1] > date_range[2] => df_filtered = <<>>
        /\ pc = "kpi" => fault = "none"

\* two dimensions and the date range are active; a row dated on the end day is
\* kept and another row is dropped
C1_Witness ==
    /\ Filtered
    /\ Len(date_range) = 2
    /\ store_filter # {}
    /\ salesperson_filter # {}
    /\ Len(df_filtered) > 0
    /\ Len(df_filtered) < Len(df_sales)
    /\ \E i \in DOMAIN df_filtered : df_filtered[i].DATA = ToDatetime(date_range[2])

\* C9: when the date range has no two endpoints the date predicate is skipped:
\* the filter step raises nothing and the view is the base dataset restricted by
\* the dimension selections only.
C9_PartialRangeSkipsDate ==
    (Filtered /\ Len(date_range) # 2) =>
        /\ df_filtered = SelectSeq(df_sales, DimKeeps)
        /\ pc = "kpi" => fault = "none"

\* one endpoint is picked and a row dated before it is still in the view
C9_Witness ==
    /\ Filtered
    /\ Len(date_range) = 1
    /\ \E i \in DOMAIN df_filtered : df_filtered[i].DATA < ToDatetime(date_range[1])

\* C10: the base dataset is queried once and never changes afterwards, and the
\* filtered view and every aggregate of the current run are those of that base
\* dataset under the current selection, whatever was selected before.
C10_State ==
    LET view == FilterEngine(cache, store_filter, product_filter, category_filter,
                             salesperson_filter, date_range)
    IN  /\ queries <= 1
        /\ df_sales # <<>> => df_sales = cache
        /\ Filtered => df_filtered = view
        /\ AfterKPI => /\ kpi.total_revenue = SumCol(view, "TOTAL_VENDA")
                       /\ kpi.total_transactions = Len(view)
                       /\ kpi.avg_ticket = Mean(view, "TOTAL_VENDA")
                       /\ kpi.total_quantity = SumCol(view, "QUANTIDADE_VENDIDA")
        /\ AfterAgg => /\ product_sales = RankedPipeline(view, "PRODUCT_NAME")
                       /\ category_sales = GroupBySum(view, "CATEGORY")
                       /\ top_salespersons = RankedPipeline(view, "SALESPERSON_NAME")
                       /\ top_stores = RankedPipeline(view, "STORE_CITY")
        /\ AfterPareto => pareto_products = ParetoFrame(GroupBySum(view, "PRODUCT_NAME"))
        /\ AfterInsight => products_80 = Products80(pareto_products)

C10_Step == cache # <<>> => (cache' = cache /\ queries' = queries)

C10_LoadedOnceAndRecomputed == [](C10_State) /\ [][C10_Step]_vars

\* a run finished after two widgets were changed, on the dataset queried once
C10_Witness ==
    /\ pc = "done"
    /\ queries = 1
    /\ store_filter # {}
    /\ Len(date_range) = 1
    /\ Len(df_filtered) < Len(cache)

-----------------------------------------------------------------------------
\* C4: on an empty filtered view the run finishes without a fault: revenue 0,
\* no transactions, an average ticket that is not NaN, empty pipelines and an
\* empty Pareto sequence.
C4_EmptyViewRenders ==
    (Filtered /\ df_filtered = <<>>) =>
        /\ fault = "none"
        /\ AfterKPI => /\ kpi.total_revenue = 0
                       /\ kpi.total_transactions = 0
                       /\ ~IsNaN(kpi.avg_ticket)
        /\ AfterAgg => /\ product_sales = <<>>
                       /\ category_sales = <<>>
                       /\ top_salespersons = <<>>
                       /\ top_stores = <<>>
        /\ AfterPareto => pareto_products = <<>>

\* C5: the KPI total revenue equals the sum of the by-category totals and the
\* sum of the by-product totals.
C5_RevenueConserved ==
    AfterAgg =>
        /\ SumCol(category_sales, "TOTAL_VENDA") = kpi.total_revenue
        /\ SumCol(product_sales, "TOTAL_VENDA") = kpi.total_revenue

FullSelection(sel, col) == sel = {} \/ sel = Unique(cache, col)

\* C7: with every dimension selection empty, or equal to all the values of its
\* dimension, and the date range at its default, the run gets through the
\* sidebar and the filtered view has the rows of the base dataset.
C7_FilterIdentity ==
    ( /\ cache # <<>>
      /\ FullSelection(store_filter, "STORE_CITY")
      /\ FullSelection(product_filter, "PRODUCT_NAME")
      /\ FullSelection(category_filter, "CATEGORY")
      /\ FullSelection(salesperson_filter, "SALESPERSON_NAME")
      /\ rendered => date_range = DefaultDateRange(cache) ) =>
        /\ fault # "TypeError"
        /\ Filtered => df_filtered = cache

-----------------------------------------------------------------------------
(* The pipelines *)
Groups(col) == Unique(df_filtered, col) \ {NULL}
GroupTotal(col, k) ==
    SumCol(SelectSeq(df_filtered, LAMBDA r : r[col] = k), "TOTAL_VENDA")

IsTopOf(out, col) ==
    LET n == Cardinality(Groups(col))
    IN  /\ Len(out) = IF n < TopN THEN n ELSE TopN
        /\ \A i \in DOMAIN out : /\ out[i].key \in Groups(col)
                                 /\ out[i].TOTAL_VENDA = GroupTotal(col, out[i].key)
        /\ \A i, j \in DOMAIN out :
              /\ i < j => out[i].TOTAL_VENDA >= out[j].TOTAL_VENDA
              /\ i # j => out[i].key # out[j].key
        /\ \A k \in Groups(col) \ {out[i].key : i \in DOMAIN out} :
              \A i \in DOMAIN out : GroupTotal(col, k) <= out[i].TOTAL_VENDA

\* C8: each ranked pipeline (by product, by salesperson, by store city) returns
\* min(10, number of groups) rows in non-increasing order of summed amount, each
\* row carrying the sum of its group, and no group left out has a larger sum
\* than a group returned.  A group is a non-null value of the grouping column.
C8_RankedTopTen ==
    AfterAgg =>
        /\ IsTopOf(product_sales, "PRODUCT_NAME")
        /\ IsTopOf(top_salespersons, "SALESPERSON_NAME")
        /\ IsTopOf(top_stores, "STORE_CITY")

\* more than 10 groups, sums that differ, and a group left out that ties with
\* the last group returned
C8_Witness ==
    /\ AfterAgg
    /\ Cardinality(Groups("PRODUCT_NAME")) > TopN
    /\ Len(product_sales) = TopN
    /\ product_sales[1].TOTAL_VENDA > product_sales[TopN].TOTAL_VENDA
    /\ \E k \in Groups("PRODUCT_NAME") \ {product_sales[i].key : i \in DOMAIN product_sales} :
          GroupTotal("PRODUCT_NAME", k) = product_sales[TopN].TOTAL_VENDA

Pct(i) == pareto_products[i].CUMULATIVE_PERCENTAGE

\* C2: with at least one product and positive revenues only, cumulative revenue
\* and cumulative percentage do not decrease with rank, and at the last rank the
\* cumulative revenue is the total revenue and the percentage is 100.
C2_ParetoCumulative ==
    ( /\ AfterPareto
      /\ Len(pareto_products) >= 1
      /\ \A i \in DOMAIN df_filtered : df_filtered[i].TOTAL_VENDA > 0 ) =>
        LET n == Len(pareto_products)
        IN  /\ \A i \in 1..(n - 1) :
                 /\ pareto_products[i].CUMULATIVE_SALES
                      <= pareto_products[i + 1].CUMULATIVE_SALES
                 /\ Pct(i).num * Pct(i + 1).den <= Pct(i + 1).num * Pct(i).den
            /\ \A i \in 1..n : /\ Pct(i).den > 0
                               /\ pareto_products[i].PRODUCT_NUMBER = i
            /\ pareto_products[n].CUMULATIVE_SALES = kpi.total_revenue
            /\ Pct(n).num = 100 * Pct(n).den

\* three ranked products whose percentages strictly grow
C2_Witness ==
    /\ AfterPareto
    /\ Len(pareto_products) = 3
    /\ pareto_products[1].TOTAL_VENDA > pareto_products[2].TOTAL_VENDA
    /\ Pct(1).num < Pct(2).num
    /\ Pct(2).num < Pct(3).num

\* C3: with product totals P1 = 600, P2 = 300, P3 = 100 the ranks are
\* P1, P2, P3, the cumulative percentages are 60, 90, 100 and count-at-80 is 2.
C3_Scenario ==
    ( /\ AfterInsight
      /\ Groups("PRODUCT_NAME") = {1, 2, 3}
      /\ GroupTotal("PRODUCT_NAME", 1) = 600
      /\ GroupTotal("PRODUCT_NAME", 2) = 300
      /\ GroupTotal("PRODUCT_NAME", 3) = 100 ) =>
        /\ [i \in 1..3 |-> pareto_products[i].PRODUCT_NAME] = <<1, 2, 3>>
        /\ Pct(1).num = 60 * Pct(1).den
        /\ Pct(2).num = 90 * Pct(2).den
        /\ Pct(3).num = 100 * Pct(3).den
        /\ Len(products_80) = 2

\* revenue d moved from the product of rank j to the product of rank 1
Concentrated(j, d) ==
    [i \in DOMAIN pareto_products |->
        [key |-> pareto_products[i].PRODUCT_NAME,
         TOTAL_VENDA |-> IF i = 1 THEN pareto_products[i].TOTAL_VENDA + d
                         ELSE IF i = j THEN pareto_products[i].TOTAL_VENDA - d
                         ELSE pareto_products[i].TOTAL_VENDA]]

\* count-at-80 does not grow when revenue moves from a lower rank to rank 1
CountAt80Monotone ==
    (AfterInsight /\ Len(pareto_products) >= 2) =>
        \A j \in 2..Len(pareto_products) :
            \A d \in {100 * m : m \in 1..(pareto_products[j].TOTAL_VENDA \div 100)} :
                Len(Products80(ParetoFrame(Concentrated(j, d)))) <= Len(products_80)

\* C6: count-at-80 does not grow when the distribution becomes more
\* concentrated, and it is 1 when one product holds more than 80% of the total.
C6_Concentration ==
    /\ CountAt80Monotone
    /\ ( /\ AfterInsight
         /\ Len(pareto_products) >= 1
         /\ pareto_products[1].TOTAL_VENDA * 100 > Threshold80 * kpi.total_revenue ) =>
           Len(products_80) = 1

=============================================================================
